---------------------------- MODULE Spec2Model ----------------------------
(***************************************************************************)
(* Conflict-of-interest detection of the Bangladesh law assistant:         *)
(* the Conflict Evaluator (core/common.py), the Similarity Index           *)
(* (services/analyze_vector_db.py) and the requests that drive them        *)
(* (api/v1/analyze.py, api/v1/conflict_detection.py,                       *)
(* workflows/conflict_workflow.py).                                        *)
(*                                                                         *)
(* Texts are strings; positions are 0-based as in Python.  Scores and      *)
(* thresholds are hundredths (0.85 is 85, a raw distance of 1.4 is 140).   *)
(***************************************************************************)
EXTENDS Integers, Sequences, FiniteSets, TLC

---------------------------------------------------------------------------
(* Python string primitives                                                *)

Min(a, b) == IF a <= b THEN a ELSE b

Max(a, b) == IF a >= b THEN a ELSE b

\* text[a:b] with Python's clamping of both ends
Slice(text, a, b) ==
    LET lo == Min(Max(a, 0), Len(text))
        hi == Min(Max(b, 0), Len(text))
    IN  IF lo >= hi THEN "" ELSE SubSeq(text, lo + 1, hi)

\* text[p], one character
CharAt(text, p) == SubSeq(text, p + 1, p + 1)

UpperCase == "ABCDEFGHIJKLMNOPQRSTUVWXYZ"

LowerCase == "abcdefghijklmnopqrstuvwxyz"

Digits == "0123456789"

InString(c, s) == \E i \in 1..Len(s) : SubSeq(s, i, i) = c

LowerChar(c) ==
    IF InString(c, UpperCase)
    THEN LET i == CHOOSE k \in 1..Len(UpperCase) : SubSeq(UpperCase, k, k) = c
         IN  SubSeq(LowerCase, i, i)
    ELSE c

RECURSIVE Join(_, _, _)
\* ''.join(pieces[lo..hi]), by halves
Join(pieces, lo, hi) ==
    IF lo > hi THEN ""
    ELSE IF lo = hi THEN pieces[lo]
    ELSE LET mid == (lo + hi) \div 2
         IN  Join(pieces, lo, mid) \o Join(pieces, mid + 1, hi)

\* str.lower()
lower(s) == Join([i \in 1..Len(s) |-> LowerChar(SubSeq(s, i, i))], 1, Len(s))

\* the characters the regular expression class \s matches
IsSpace(c) == c \in {" ", "\n", "\t"}

\* the characters the regular expression class \w matches
IsWord(c) == InString(c, UpperCase) \/ InString(c, LowerCase)
             \/ InString(c, Digits) \/ c = "_"

\* the least of a set of positions, or none when there is no position
LeastOr(positions, none) ==
    IF positions = {} THEN none
    ELSE CHOOSE p \in positions : \A q \in positions : p <= q

\* the greatest of a set of positions, or none when there is no position
GreatestOr(positions, none) ==
    IF positions = {} THEN none
    ELSE CHOOSE p \in positions : \A q \in positions : p >= q

\* text.find(sub, start): lowest p >= start with text[p:p+len(sub)] = sub, or -1
find(text, sub, start) ==
    LeastOr({p \in Max(start, 0)..(Len(text) - Len(sub)) :
                Slice(text, p, p + Len(sub)) = sub}, -1)

\* text.rfind(sub, start, end): highest p in [start, end - len(sub)], or -1
rfind(text, sub, start, end) ==
    GreatestOr({p \in Max(start, 0)..(Min(end, Len(text)) - Len(sub)) :
                   Slice(text, p, p + Len(sub)) = sub}, -1)

---------------------------------------------------------------------------
(* Regular expressions of core/common.py: a pattern is a set of            *)
(* alternatives, an alternative a sequence of atoms.                       *)

Lit(word) == [i \in 1..Len(word) |-> [t |-> "lit", c |-> SubSeq(word, i, i)]]

\* c? : the character or nothing
Opt(ch) == <<[t |-> "opt", c |-> ch]>>

\* \s+ : one or more white-space characters
Ws == <<[t |-> "ws", c |-> " "]>>

RECURSIVE MatchAt(_, _, _, _)
\* the alternative alt, from its atom k on, matches text at position p
\* (IGNORECASE: characters are compared in lower case)
MatchAt(text, p, alt, k) ==
    IF k > Len(alt) THEN TRUE
    ELSE LET a == alt[k]
             here == p < Len(text)
         IN  CASE a.t = "lit" ->
                    /\ here
                    /\ LowerChar(CharAt(text, p)) = LowerChar(a.c)
                    /\ MatchAt(text, p + 1, alt, k + 1)
               [] a.t = "opt" ->
                    \/ /\ here
                       /\ LowerChar(CharAt(text, p)) = LowerChar(a.c)
                       /\ MatchAt(text, p + 1, alt, k + 1)
                    \/ MatchAt(text, p, alt, k + 1)
               [] a.t = "ws" ->
                    /\ here
                    /\ IsSpace(CharAt(text, p))
                    /\ \/ MatchAt(text, p + 1, alt, k + 1)
                       \/ MatchAt(text, p + 1, alt, k)

\* re.search(pattern, text, re.IGNORECASE) is not None
re_search(pattern, text) ==
    \E alt \in pattern : \E p \in 0..Len(text) : MatchAt(text, p, alt, 1)

---------------------------------------------------------------------------
(* Context extraction and legal validation (core/common.py)                *)

\* how far before the entity the search for the previous '.' ends
BackScan == 100

\* how far after the entity the search for the next '.' starts
ForwardScan == 100

\* context end when no '.' follows; also the length of the fallback prefix
DefaultExtent == 300

\* half-width of the fallback window around the first occurrence
FallbackWindow == 150

\* half-width of the window is_meaningful_legal_entity searches
window == 200

\* sanitize_context's max_length
max_length == 200

RECURSIVE Occurrences(_, _, _)
\* the positions list of extract_entity_context: non-overlapping
\* occurrences of entity_lower in text_lower, from start on
Occurrences(text_lower, entity_lower, start) ==
    LET pos == find(text_lower, entity_lower, start)
    IN  IF pos = -1 THEN <<>>
        ELSE <<pos>> \o Occurrences(text_lower, entity_lower,
                                    pos + Len(entity_lower))

\* the context taken around one occurrence
SentenceAround(text, pos) ==
    LET sentence_start == Max(0, rfind(text, ".", 0, Max(0, pos - BackScan)) + 1)
        dot == find(text, ".", Min(Len(text), pos + ForwardScan))
        sentence_end == IF dot = -1 THEN Min(Len(text), pos + DefaultExtent)
                        ELSE dot
    IN  Slice(text, sentence_start, sentence_end + 1)

\* max(contexts, key=len): the first of the longest
Longest(contexts) ==
    LET i == CHOOSE k \in 1..Len(contexts) :
                /\ \A m \in 1..Len(contexts) : Len(contexts[m]) <= Len(contexts[k])
                /\ \A m \in 1..(k - 1) : Len(contexts[m]) < Len(contexts[k])
    IN  contexts[i]

extract_entity_context(text, entity) ==
    LET positions == Occurrences(lower(text), lower(entity), 0)
        firstTwo == SubSeq(positions, 1, Min(2, Len(positions)))
        contexts == [i \in 1..Len(firstTwo) |-> SentenceAround(text, firstTwo[i])]
        best_context == IF contexts = <<>> THEN "" ELSE Longest(contexts)
    IN  IF positions = <<>> THEN Slice(text, 0, DefaultExtent)
        ELSE IF best_context # "" THEN best_context
        ELSE Slice(text, Max(0, positions[1] - FallbackWindow),
                   Min(Len(text), positions[1] + Len(entity) + FallbackWindow))

legal_patterns ==
    << {Lit("represented"), Lit("client"), Lit("party"), Lit("representing"),
        Lit("counsel"), Lit("plaintiff"), Lit("defendant")},
       {Lit("vs") \o Opt("."), Lit("versus")},
       {Lit("petitioner"), Lit("respondent")},
       {Lit("witness"), Lit("testimony")},
       {Lit("attorney"), Lit("lawyer"), Lit("law") \o Ws \o Lit("firm")},
       {Lit("judge"), Lit("justice"), Lit("court") \o Ws \o Lit("order")},
       {Lit("legal") \o Ws \o Lit("proceeding"), Lit("judgment"), Lit("ruling")} >>

state_patterns ==
    << {Lit("the") \o Ws \o Lit("state") \o Ws \o Lit("vs") \o Opt(".")},
       {Lit("vs") \o Opt(".") \o Ws \o Lit("the") \o Ws \o Lit("state")},
       {Lit("represented") \o Ws \o Lit("by") \o Ws \o Lit("the") \o Ws \o Lit("state")},
       {Lit("the") \o Ws \o Lit("state") \o Ws \o Lit("as") \o Ws \o Lit(role) :
            role \in {"plaintiff", "defendant", "respondent", "petitioner"}} >>

\* the check without the special case of "the state": the legal patterns
\* around the entity, for every entity
LegalContextOnly(entity, context) ==
    LET entity_position == find(lower(context), lower(entity), 0)
        context_window ==
            Slice(context, Max(0, entity_position - window),
                  Min(Len(context), entity_position + Len(entity) + window))
    IN  /\ entity_position # -1
        /\ \E i \in 1..Len(legal_patterns) :
               re_search(legal_patterns[i], context_window)

is_meaningful_legal_entity(entity, context) ==
    IF lower(entity) = "the state"
    THEN \E i \in 1..Len(state_patterns) : re_search(state_patterns[i], context)
    ELSE LET entity_position == find(lower(context), lower(entity), 0)
             context_window ==
                 Slice(context, Max(0, entity_position - window),
                       Min(Len(context), entity_position + Len(entity) + window))
         IN  /\ entity_position # -1
             /\ \E i \in 1..Len(legal_patterns) :
                    re_search(legal_patterns[i], context_window)

\* re.sub(r'\s+', ' ', text): a run of white space becomes one blank
CollapseSpaces(text) ==
    Join([i \in 1..Len(text) |->
            LET c == SubSeq(text, i, i)
            IN  IF ~IsSpace(c) THEN c
                ELSE IF i > 1 /\ IsSpace(SubSeq(text, i - 1, i - 1)) THEN ""
                ELSE " "],
         1, Len(text))

\* str.strip()
strip(text) ==
    LET solid == {i \in 1..Len(text) : ~IsSpace(SubSeq(text, i, i))}
    IN  IF solid = {} THEN ""
        ELSE SubSeq(text, CHOOSE i \in solid : \A k \in solid : i <= k,
                          CHOOSE i \in solid : \A k \in solid : i >= k)

\* re.sub(r'[^\w\s.,-]', '', text)
KeepDisplayable(text) ==
    Join([i \in 1..Len(text) |->
            LET c == SubSeq(text, i, i)
            IN  IF IsWord(c) \/ IsSpace(c) \/ c \in {".", ",", "-"}
                THEN c ELSE ""],
         1, Len(text))

sanitize_context(text) ==
    LET cleaned == KeepDisplayable(strip(CollapseSpaces(text)))
    IN  IF Len(cleaned) > max_length
        THEN Slice(cleaned, 0, max_length) \o "..."
        ELSE cleaned

---------------------------------------------------------------------------
(* Case title and parties (core/common.py, lines 17-48). The regular       *)
(* expressions are matched as re.search matches them: leftmost start,      *)
(* lazy groups as short as the rest of the pattern allows.                 *)

\* where the run of white space that starts at p ends: what \s* consumes
SpaceEnd(text, p) ==
    LeastOr({q \in Min(p, Len(text))..Len(text) :
                q = Len(text) \/ ~IsSpace(CharAt(text, q))}, Len(text))

\* where the run of white space that ends at j starts, not before g
SpaceStart(text, g, j) ==
    LeastOr({e \in g..j : \A q \in e..(j - 1) : IsSpace(CharAt(text, q))}, j)

\* the first position from k on where one of the words starts, or the end
\* of the text when atEnd, or -1
FirstStop(text, words, k, atEnd) ==
    LeastOr(({find(text, w, k) : w \in words} \ {-1})
                \cup (IF atEnd THEN {Len(text)} ELSE {}), -1)

\* (?:^|\\n): the start of the text, or after a backslash followed by n
LineAnchors(text) ==
    {0} \cup {p + 2 : p \in {q \in 0..(Len(text) - 2) : Slice(text, q, q + 2) = "\\n"}}

\* (.*?)(?:\n|Case No) after \s* consumed text[c:k]: the group ends at the
\* stop t; with no stop, \s* gives back as far as its last line break
CaseFileGroup(text, c, k, t) ==
    IF t # -1 THEN [found |-> TRUE, group |-> Slice(text, k, t)]
    ELSE [found |-> find(Slice(text, c, k), "\n", 0) # -1, group |-> ""]

\* \s*(.*?)(?:\n|Case No) from c on, where "Case File:?" ended
CaseFileAfter(text, c, k) ==
    CaseFileGroup(text, c, k, FirstStop(text, {"\n", "Case No"}, k, FALSE))

\* r"Case File:?\s*(.*?)(?:\n|Case No)" at the occurrence p of "Case File":
\* whether it matches, and group 1
CaseFileAt(text, p) ==
    IF Slice(text, p + 9, p + 10) = ":"
    THEN CaseFileAfter(text, p + 10, SpaceEnd(text, p + 10))
    ELSE CaseFileAfter(text, p + 9, SpaceEnd(text, p + 9))

\* the rest of the line from k on
RestOfLine(text, k) == Slice(text, k, FirstStop(text, {"\n"}, k, TRUE))

\* r"(?:^|\\n)The State vs\.\s*(.*?)(?:\n|$)" at the anchor g
StateVsAt(text, g) ==
    [found |-> Slice(text, g, g + 13) = "The State vs.",
     group |-> RestOfLine(text, SpaceEnd(text, g + 13))]

\* the lazy group from g up to the white space before the word at j
GroupBefore(text, g, j, e) ==
    [found |-> j # -1 /\ find(Slice(text, g, e), "\n", 0) = -1,
     group |-> Slice(text, g, e), at |-> j]

\* the group when the first occurrence of the word from g on is at j
GroupUpTo(text, g, j) ==
    GroupBefore(text, g, j, IF j = -1 THEN g ELSE SpaceStart(text, g, j))

\* the lazy group that starts at g and ends before \s* and the word: the
\* first occurrence of the word from g on decides
BeforeWord(text, g, word) == GroupUpTo(text, g, find(text, word, g))

\* the positions at which the match is found; matches[p] is the attempt at p
Hits(matches) == {p \in DOMAIN matches : matches[p].found}

\* the match at the first position at which one is found
FirstFound(matches) ==
    IF Hits(matches) = {} THEN [found |-> FALSE]
    ELSE [found |-> TRUE, match |-> matches[LeastOr(Hits(matches), 0)]]

\* for pattern in patterns: the stripped group 1 of the first that matches
FirstGroup(first, second, third) ==
    IF first.found THEN strip(first.match.group)
    ELSE IF second.found THEN strip(second.match.group)
    ELSE IF third.found THEN strip(third.match.group)
    ELSE ""

extract_case_title(text) ==
    FirstGroup(
        FirstFound([p \in {q \in 0..Len(text) : Slice(text, q, q + 9) = "Case File"} |->
                       CaseFileAt(text, p)]),
        FirstFound([g \in LineAnchors(text) |-> StateVsAt(text, g)]),
        FirstFound([g \in LineAnchors(text) |-> BeforeWord(text, g, "vs.")]))

\* the party without the prefix that ends at position prefix
WithoutPrefix(party, prefix) ==
    IF prefix = -1 THEN strip(party)
    ELSE strip(Slice(party, SpaceEnd(party, prefix), Len(party)))

\* re.sub(r"^(?:The|Case File:)\s*", "", party).strip()
clean_party(party) ==
    WithoutPrefix(party, IF Slice(party, 0, 3) = "The" THEN 3
                         ELSE IF Slice(party, 0, 10) = "Case File:" THEN 10
                         ELSE -1)

\* \s*(.*?)(?:\n|Case No|Jurisdiction|$) from c on, stripped
Defendant(text, c) ==
    strip(Slice(text, SpaceEnd(text, c),
                FirstStop(text, {"\n", "Case No", "Jurisdiction"},
                          SpaceEnd(text, c), TRUE)))

\* plaintiff and defendant, cleaned; the empty ones are left out
Parties(plaintiff, defendant) ==
    SelectSeq(<<clean_party(plaintiff), clean_party(defendant)>>,
              LAMBDA party : party # "")

\* the parties of the match vs_match, whose "vs" is at position j
PartiesOf(text, group, j) ==
    Parties(strip(group),
            Defendant(text, IF Slice(text, j + 2, j + 3) = "." THEN j + 3 ELSE j + 2))

\* the parties of the match vs_match, if there is one
PartiesAt(text, vs_match) ==
    IF ~vs_match.found THEN <<>>
    ELSE PartiesOf(text, vs_match.match.group, vs_match.match.at)

\* r"(.*?)\s*vs\.?\s*(.*?)(?:\n|Case No|Jurisdiction|$)": the plaintiff
\* before the first "vs" on its line, the defendant after it
extract_case_parties(text) ==
    PartiesAt(text, FirstFound([s \in 0..Len(text) |-> BeforeWord(text, s, "vs")]))

---------------------------------------------------------------------------
(* State                                                                   *)

VARIABLES
    index,                \* the FAISS store: chunks in insertion order
    dist,                 \* the embedding distance of (query, chunk text), once computed
    pc,                   \* position of the evaluator call: idle, entity, done
    entities,             \* argument entities
    similarity_threshold, \* argument similarity_threshold
    current_file_id,      \* argument current_file_id
    doc_count,            \* the count read at the start of the call
    specific_entities,    \* the entities that passed the generic-term filter
    ei,                   \* the for loop over specific_entities: entities begun
    results,              \* results[n]: what the search returned for entity number n
    conflicts,            \* the list being built, and returned
    matched_documents,    \* the set matched_documents
    searches,             \* calls of search_with_scores made by this call
    faulted,              \* an index call of this call raised (and was swallowed)
    raised,               \* the entities (by number) whose loop body raised
    index_before,         \* the index when this call began
    calls,                \* evaluator calls completed
    returned,             \* what the previous call returned, and whether a search failed in it
    rows,                 \* AnalysisDocument rows: the source_path of each
    tasks,                \* background tasks added and not yet run
    uuids,                \* uuid4 values handed out
    checked_file,         \* the file of the conflict-check request being served, or NoFile
    disk,                 \* the index as save_local last wrote it
    state,                \* the state of the conflict detection workflow
    response,             \* what the last request or call handed back to its caller
    history,              \* UserHistory rows, in the order committed
    writers,              \* process_analysis coroutines that changed the index and have not saved it yet
    run,                  \* the invocation of legal_agent or argument_agent being made, or made last
    env                   \* what OCR, the NLP model and the LLM did for the last conflict check

vars == <<index, dist, pc, entities, similarity_threshold, current_file_id,
          doc_count, specific_entities, ei, results, conflicts,
          matched_documents, searches, faulted, raised, index_before, calls, returned,
          rows, tasks, uuids, checked_file, disk, state, response, history, env,
          writers, run>>

callVars == <<entities, similarity_threshold, current_file_id>>

loopVars == <<doc_count, specific_entities, ei, results, conflicts,
              matched_documents, searches, faulted, raised, index_before>>

flowVars == <<disk, state, response, history, env>>

sysVars == <<rows, tasks, uuids, checked_file, writers, run, flowVars>>

---------------------------------------------------------------------------
(* Bounds and the values inputs are drawn from                             *)

\* longest entity list a direct caller passes to the evaluator
MaxEntities == 2

\* most chunks in the index
MaxIndex == 2

\* evaluator calls in one behaviour
MaxCalls == 2

\* entities: a generic term, a short name, the two common legal actors that
\* pass the generic-term filter, and an ordinary party name
EntityUniverse == {"court", "Acme", "The State", "supreme court", "Karim Sheikh"}

\* caller thresholds, in hundredths
Thresholds == {70, 85}

\* raw distances the index can report, in hundredths: below 0, within
\* [0, 1], within (1, 2] and above 2
RawScores == {-10, 90, 140, 250}

TextA == "The State vs. Karim Sheikh. Karim Sheikh, counsel for the defendant, argued before the Supreme Court."

TextB == "Karim Sheikh, counsel for the state, argued the appeal."

TextC == "Karim Sheikh bought rice, lentils, fish and many other things for the household during the whole month. Later the judge adjourned."

TextD == "Ali vs. Karim Sheikh 2021"

SentinelText == "System Initial Document"

\* values of current_file_id: the unique_id of an indexed document, and a
\* file name
FileIds == {"uuid-1", "a.pdf"}

NoFile == [name |-> "", text |-> ""]

\* no workflow has run
NoState == [current_step |-> "none"]

\* nothing handed back yet
NoResponse == [kind |-> "none"]

\* no agent has been invoked
NoRun == [outcome |-> "none"]

\* no conflict check has been served or refused
NoEnv == [request_id |-> "", served |-> 0, refused |-> 0, threshold |-> 0,
          nodes |-> <<>>]

\* the uploaded files: one whose text names the State and a defendant, one
\* that names no parties, one whose defendant carries a year
Files == {[name |-> "a.pdf", text |-> TextA],
          [name |-> "b.pdf", text |-> TextB],
          [name |-> "d.pdf", text |-> TextD]}

\* every chunk text
TextUniverse == {SentinelText, TextA, TextB, TextC, TextD}

\* what OCR can do with a file: its text, no text, white space only, or raise
OcrOutcomes(file) ==
    {[raises |-> FALSE, text |-> file.text],
     [raises |-> FALSE, text |-> ""],
     [raises |-> FALSE, text |-> " \n"],
     [raises |-> TRUE, text |-> ""]}

\* the texts OCR can return for the uploaded files
FileTexts == UNION {{ocr.text : ocr \in OcrOutcomes(file)} : file \in Files}

\* the elements of a list
Elements(list) == {list[i] : i \in 1..Len(list)}

\* title and parties of the texts drawn here, computed once
CaseTitleOf == [t \in FileTexts |-> extract_case_title(t)]

CasePartiesOf == [t \in FileTexts |-> extract_case_parties(t)]

\* the entities the case information of the files contributes
CaseEntities ==
    (UNION {{CaseTitleOf[t]} \cup Elements(CasePartiesOf[t]) : t \in FileTexts}) \ {""}

\* every entity the evaluator can be handed
AllEntities == EntityUniverse \cup CaseEntities

\* the text functions on the texts and entities drawn here, computed once
LowerOf == [e \in AllEntities |-> lower(e)]

ContextOf == [t \in TextUniverse, e \in AllEntities |->
                 extract_entity_context(t, e)]

MeaningfulIn == [t \in TextUniverse, e \in AllEntities |->
                    is_meaningful_legal_entity(e, ContextOf[t, e])]

SanitizedOf == [t \in TextUniverse, e \in AllEntities |->
                   sanitize_context(ContextOf[t, e])]

\* the phrases that make "the state" a party, lines 183-188, in lower case
\* and with single blanks; "vs" stands with or without its full stop
StatePhrases ==
    {"the state vs", "vs the state", "vs. the state", "represented by the state",
     "the state as plaintiff", "the state as defendant",
     "the state as respondent", "the state as petitioner"}

\* one of the phrases occurs in the context, whatever its case and spacing
HasStatePhrase(context) ==
    \E phrase \in StatePhrases : find(lower(CollapseSpaces(context)), phrase, 0) # -1

\* whether the context of the entity in the text has one of the phrases
StatePhraseIn == [t \in TextUniverse, e \in AllEntities |->
                     HasStatePhrase(ContextOf[t, e])]

---------------------------------------------------------------------------
(* The Similarity Index (services/analyze_vector_db.py)                    *)

\* dict.get(key, default)
Get(metadata, key, default) ==
    IF key \in DOMAIN metadata THEN metadata[key] ELSE default

\* the placeholder entry a new store is created with
Sentinel ==
    [content |-> SentinelText,
     metadata |-> [document_id |-> "system-init", source |-> "system",
                   unique_id |-> "uuid-0"]]

\* the chunk add_documents stores for a document that process_analysis
\* hands it (the keys no modelled operation reads are left out)
RawCaseChunk(file, unique_id) ==
    [content |-> file.text,
     metadata |-> [document_id |-> "doc-" \o file.name,
                   source |-> file.name,
                   source_path |-> file.name,
                   document_type |-> "RawCase",
                   created_at |-> "t-" \o unique_id,
                   file_source |-> file.name,
                   unique_id |-> unique_id]]

\* the copy update_document adds: the chunk's metadata overlaid with the patch
UpdatedChunk(chunk, patch) ==
    [content |-> chunk.content,
     metadata |-> [k \in (DOMAIN chunk.metadata) \cup (DOMAIN patch) |->
                      IF k \in DOMAIN patch THEN patch[k] ELSE chunk.metadata[k]]]

\* the patch process_analysis passes to update_document
AccessPatch == [last_accessed |-> "later", analysis_result |-> "analysis"]

\* get_document_count(): ntotal, or 0 when reading it raises
get_document_count(raises) == IF raises THEN 0 ELSE Len(index)

\* chunk positions by increasing distance to query under d, ties in index order
Nearest(query, d) ==
    LET n == Len(index)
        key(i) == d[<<query, index[i].content>>]
        before(i, j) == key(i) < key(j) \/ (key(i) = key(j) /\ i < j)
    IN  [r \in 1..n |-> CHOOSE i \in 1..n :
                           Cardinality({j \in 1..n : before(j, i)}) = r - 1]

\* search_with_scores(query, k) when the store answers: the k nearest chunks
search_with_scores(query, k, d) ==
    LET order == Nearest(query, d)
    IN  [r \in 1..Min(k, Len(index)) |->
            [content |-> index[order[r]].content,
             metadata |-> index[order[r]].metadata,
             score |-> d[<<query, index[order[r]].content>>]]]

---------------------------------------------------------------------------
(* The Conflict Evaluator: check_conflicts_in_raw_cases (core/common.py)   *)

generic_terms ==
    {"the", "and", "of", "to", "court", "law", "case", "file",
     "district", "summary", "background", "events", "conclusion",
     "legal", "current", "status", "local residents", "government",
     "state", "police", "lawyers", "journalists", "district court",
     "legal battle", "law enforcement", "local authorities",
     "community", "human rights"}

common_legal_entities == {"the state", "government", "supreme court"}

\* an entity must be longer than this to be kept
MinEntityLen == 4

\* at most this many neighbours are fetched per entity
MaxNeighbours == 3

\* what a common legal actor adds to the threshold: 0.1
CommonEntityMargin == 10

\* 1.0, the top of the valid score range and the cap
One == 100

\* the filter with its generic-term test left out
LongEnough(e) == Len(e) > MinEntityLen

\* [e for e in entities if e.lower() not in generic_terms and len(e) > 4]
IsSpecific(e) == LowerOf[e] \notin generic_terms /\ Len(e) > MinEntityLen

RECURSIVE SpecificEntities(_)
SpecificEntities(ents) ==
    IF ents = <<>> THEN <<>>
    ELSE IF IsSpecific(Head(ents))
         THEN <<Head(ents)>> \o SpecificEntities(Tail(ents))
    ELSE SpecificEntities(Tail(ents))

\* the caller's threshold for every entity
SameThreshold(entity, threshold) == threshold

\* similarity_threshold + 0.1 for a common legal actor
entity_threshold(entity, threshold) ==
    IF LowerOf[entity] \in common_legal_entities
    THEN threshold + CommonEntityMargin
    ELSE threshold

\* a distance turned into a similarity: 1 - score / 2, not below 0
Closeness(score) == Max(One - score \div 2, 0)

\* a score pushed into [0, 1] without halving
Clamped(score) == Min(Max(score, 0), One)

\* the raw score taken as it is
Unhalved(score) == score

\* min(score / 2.0, 1.0) if score > 1.0 else score
\* (the raw scores above 1.0 drawn here are even, so the half is exact)
normalized_score(score) ==
    IF score > One THEN Min(score \div 2, One) ELSE score

\* 0 <= normalized_score <= 1.0
ValidScore(n) == 0 <= n /\ n <= One

\* the validation checks without the matched_documents test
RejectedOnce(metadata, file_id, matched) ==
    \/ Get(metadata, "document_type", "None") # "RawCase"
    \/ file_id = Get(metadata, "unique_id", "")

\* the test on documents already matched alone
AlreadyMatched(metadata, file_id, matched) ==
    Get(metadata, "source", "Unknown") \in matched

\* the validation checks of lines 123-128: TRUE when the match is skipped
Rejected(metadata, file_id, matched) ==
    \/ Get(metadata, "document_type", "None") # "RawCase"
    \/ file_id = Get(metadata, "unique_id", "")
    \/ Get(metadata, "source", "Unknown") \in matched

\* what the loop body does with one search result: the gate that stops
\* it, or "record"
MatchOutcome(entity, result, threshold, file_id, matched) ==
    LET n == normalized_score(result.score)
        context == ContextOf[result.content, entity]
    IN  IF ~ValidScore(n) THEN "score_error"
        ELSE IF n < entity_threshold(entity, threshold) THEN "low_score"
        ELSE IF Rejected(result.metadata, file_id, matched) THEN "validation"
        ELSE IF context = "" THEN "no_context"
        ELSE IF ~MeaningfulIn[result.content, entity] THEN "not_legal"
        ELSE "record"

\* the dictionary appended to conflicts
ConflictRecord(entity, result) ==
    LET doc_id == Get(result.metadata, "source", "Unknown")
    IN  [entity |-> entity,
         matched_document |-> doc_id,
         document_type |-> "RawCase",
         similarity_score |-> normalized_score(result.score),
         context |-> SanitizedOf[result.content, entity],
         case_details |->
            [case_id |-> doc_id,
             case_name |-> Get(result.metadata, "file_source", "Unknown"),
             date |-> Get(result.metadata, "created_at", "Unknown")]]

\* the set left by the call before
StaleMatched == matched_documents

\* matched_documents = set(), at the start of every call
InitialMatched == {}

\* the count is never taken for zero
NeverEmpty(count) == FALSE

\* if doc_count == 0: return []
NoDocuments(count) == count = 0

\* if not specific_entities: return []
NothingSpecific(specific) == specific = <<>>

\* the entities taken last to first
Backwards(specific, n) == specific[Len(specific) + 1 - n]

\* for entity in specific_entities: the entity of iteration number n
LoopEntity(specific, n) == specific[n]

\* where the for loop over entities goes after the entity numbered done
AfterEntity(done) == IF done = Len(specific_entities) THEN "done" ELSE "entity"

\* lines 61-82: the call up to the loop over the specific entities
CallBody(ents, threshold, file_id) ==
    \E raises \in BOOLEAN :
        LET count == get_document_count(raises)
            specific == SpecificEntities(ents)
        IN  /\ entities' = ents
            /\ similarity_threshold' = threshold
            /\ current_file_id' = file_id
            /\ conflicts' = <<>>
            /\ matched_documents' = InitialMatched
            /\ doc_count' = count
            /\ specific_entities' = IF NoDocuments(count) THEN <<>> ELSE specific
            /\ pc' = IF NoDocuments(count) THEN "done"
                     ELSE IF NothingSpecific(specific) THEN "done"
                     ELSE "entity"
            /\ ei' = 0
            /\ results' = <<>>
            /\ searches' = 0
            /\ faulted' = raises
            /\ raised' = {}
            /\ index_before' = index
            /\ UNCHANGED <<index, dist, calls, returned>>

\* the pairs (query, chunk text) whose distance has not been computed yet
Unmeasured(query) ==
    {<<query, index[i].content>> : i \in 1..Len(index)} \ DOMAIN dist

RECURSIVE ProcessResults(_, _, _, _, _, _)
\* lines 97-160: the loop over the results of one entity, from result
\* number r on; acc is [conflicts, matched_documents] so far
ProcessResults(entity, found, r, threshold, file_id, acc) ==
    IF r > Len(found) THEN acc
    ELSE LET result == found[r]
             outcome == MatchOutcome(entity, result, threshold, file_id,
                                     acc.matched_documents)
             next == IF outcome = "record"
                     THEN [conflicts |->
                              Append(acc.conflicts, ConflictRecord(entity, result)),
                           matched_documents |->
                              acc.matched_documents
                                 \cup {Get(result.metadata, "source", "Unknown")}]
                     ELSE acc
         IN  ProcessResults(entity, found, r + 1, threshold, file_id, next)

\* lines 84-163: one iteration of the loop over the specific entities, the
\* index reporting distances from scores
SearchStep(scores) ==
    /\ pc = "entity"
    /\ LET entity == LoopEntity(specific_entities, ei + 1)
           k == Min(MaxNeighbours, doc_count)
       IN  \/ \* the store answers
              \E measured \in [Unmeasured(entity) -> scores] :
              \E found \in {search_with_scores(entity, k, measured @@ dist)} :
              \E after \in {ProcessResults(entity, found, 1, similarity_threshold,
                                           current_file_id,
                                           [conflicts |-> conflicts,
                                            matched_documents |-> matched_documents])} :
                 /\ dist' = measured @@ dist
                 /\ results' = Append(results, found)
                 /\ conflicts' = after.conflicts
                 /\ matched_documents' = after.matched_documents
                 /\ faulted' = faulted
           \/ \* similarity_search_with_score raises: search_with_scores returns []
              /\ results' = Append(results, <<>>)
              /\ faulted' = TRUE
              /\ UNCHANGED <<dist, conflicts, matched_documents>>
    /\ ei' = ei + 1
    /\ pc' = AfterEntity(ei + 1)
    /\ searches' = searches + 1
    /\ UNCHANGED <<index, callVars, doc_count, specific_entities, index_before,
                   raised, calls, returned, sysVars>>

\* one iteration of the loop, the distances drawn from RawScores
EntityStep == SearchStep(RawScores)

\* what becomes of a match when something in the loop body raises: "pass",
\* nothing raises; "skip", an inner try catches it (lines 111-113, 135-137,
\* 143-145) and the match is skipped; "abort", it is caught at line 162 and
\* the rest of the entity's matches are skipped
Fates == {"pass", "skip", "abort"}

RECURSIVE ProcessFated(_, _, _, _, _, _, _)
\* lines 97-163 with exceptions: the loop over the results of one entity
\* from result number r on, under the fates given
ProcessFated(entity, found, r, threshold, file_id, acc, fate) ==
    IF r > Len(found) THEN acc
    ELSE IF fate[r] = "abort" THEN acc
    ELSE IF fate[r] = "skip"
         THEN ProcessFated(entity, found, r + 1, threshold, file_id, acc, fate)
    ELSE ProcessFated(entity, found, r + 1, threshold, file_id,
                      ProcessResults(entity, SubSeq(found, r, r), 1, threshold,
                                     file_id, acc),
                      fate)

\* an exception given up on ends the call
Abort(done) == "done"

\* lines 162-163: the exception is logged and the loop goes on
AfterException(done) == AfterEntity(done)

\* lines 84-163: one iteration of the loop over the specific entities in
\* which the body raises at some match
EntityRaises ==
    /\ pc = "entity"
    /\ LET entity == LoopEntity(specific_entities, ei + 1)
           k == Min(MaxNeighbours, doc_count)
       IN  \E measured \in [Unmeasured(entity) -> RawScores] :
           \E found \in {search_with_scores(entity, k, measured @@ dist)} :
           \E fate \in [1..Len(found) -> Fates] :
           \E after \in {ProcessFated(entity, found, 1, similarity_threshold,
                                       current_file_id,
                                       [conflicts |-> conflicts,
                                        matched_documents |-> matched_documents],
                                       fate)} :
              /\ \E r \in 1..Len(found) : fate[r] # "pass"
              /\ dist' = measured @@ dist
              /\ results' = Append(results, found)
              /\ conflicts' = after.conflicts
              /\ matched_documents' = after.matched_documents
    /\ faulted' = TRUE
    /\ raised' = raised \cup {ei + 1}
    /\ ei' = ei + 1
    /\ pc' = AfterException(ei + 1)
    /\ searches' = searches + 1
    /\ UNCHANGED <<index, callVars, doc_count, specific_entities, index_before,
                   calls, returned, sysVars>>

\* line 165 (and 77, 82): return conflicts
Return ==
    /\ pc = "done"
    /\ pc' = "idle"
    /\ calls' = calls + 1
    /\ returned' = [conflicts |-> conflicts, faulted |-> faulted,
                    index |-> index_before]
    /\ UNCHANGED <<index, dist, callVars, loopVars, sysVars>>

\* a caller invokes the evaluator with any entity list, threshold and file id
Call ==
    /\ pc = "idle"
    /\ calls = 0
    /\ \E n \in 0..MaxEntities : \E ents \in [1..n -> EntityUniverse] :
       \E threshold \in Thresholds : \E file_id \in FileIds :
          CallBody(ents, threshold, file_id)
    /\ UNCHANGED sysVars

\* the caller invokes it again with the same arguments
Repeat ==
    /\ pc = "idle"
    /\ calls > 0
    /\ calls < MaxCalls
    /\ CallBody(entities, similarity_threshold, current_file_id)
    /\ UNCHANGED sysVars

---------------------------------------------------------------------------
(* The evaluator as a function of its arguments and of the index           *)

\* chunks an index can hold: the placeholder and ingested documents
ChunkUniverse ==
    {Sentinel,
     RawCaseChunk([name |-> "a.pdf", text |-> TextA], "uuid-1"),
     RawCaseChunk([name |-> "b.pdf", text |-> TextB], "uuid-2"),
     RawCaseChunk([name |-> "c.pdf", text |-> TextC], "uuid-3")}

\* no call in progress, nothing returned yet
Quiet ==
    /\ dist = <<>>
    /\ pc = "idle"
    /\ entities = <<>>
    /\ similarity_threshold = 0
    /\ current_file_id = ""
    /\ doc_count = 0
    /\ specific_entities = <<>>
    /\ ei = 0
    /\ results = <<>>
    /\ conflicts = <<>>
    /\ matched_documents = {}
    /\ searches = 0
    /\ faulted = FALSE
    /\ raised = {}
    /\ index_before = <<>>
    /\ calls = 0
    /\ returned = [conflicts |-> <<>>, faulted |-> FALSE, index |-> <<>>]
    /\ rows = {}
    /\ tasks = <<>>
    /\ uuids = 0
    /\ checked_file = NoFile
    /\ state = NoState
    /\ response = NoResponse
    /\ history = <<>>
    /\ env = NoEnv
    /\ writers = {}
    /\ run = NoRun

Init ==
    /\ \E n \in 1..MaxIndex : index \in [1..n -> ChunkUniverse]
    /\ disk = index
    /\ Quiet

Next ==
    \/ Call
    \/ Repeat
    \/ EntityStep
    \/ Return

Spec == Init /\ [][Next]_vars

\* the evaluator when the loop body may raise
FaultNext ==
    \/ Call
    \/ EntityStep
    \/ EntityRaises
    \/ Return

FaultSpec == Init /\ [][FaultNext]_vars

---------------------------------------------------------------------------
(* The score gate of the evaluator (lines 104-117) as a function of the    *)
(* raw score and the threshold: one entity, one chunk that passes every    *)
(* other gate, raw scores and thresholds on both sides of every bound      *)

\* raw scores in hundredths: below 0, 0, below and at the thresholds,
\* 1.0, and above 1.0 below, at and above twice the thresholds
GateScores ==
    {-10, 0, 50, 51, 60, 69, 70, 84, 85, 95, 100,
     102, 118, 120, 138, 140, 142, 168, 170, 190, 198, 200, 250}

\* caller thresholds above 0.5, in hundredths
GateThresholds == {51, 60, 70, 85, 90, 100}

\* an ordinary party name and a common legal actor
GateEntities == {"Karim Sheikh", "The State"}

GateInit ==
    /\ index = <<RawCaseChunk([name |-> "a.pdf", text |-> TextA], "uuid-1")>>
    /\ disk = index
    /\ Quiet

\* the evaluator is called with one entity
GateCall ==
    /\ pc = "idle"
    /\ calls = 0
    /\ \E entity \in GateEntities : \E threshold \in GateThresholds :
          CallBody(<<entity>>, threshold, "b.pdf")
    /\ UNCHANGED sysVars

\* one iteration of the loop, the distances drawn from GateScores
GateStep == SearchStep(GateScores)

GateNext ==
    \/ GateCall
    \/ GateStep
    \/ Return

GateSpec == GateInit /\ [][GateNext]_vars

---------------------------------------------------------------------------
(* The requests: analysis (api/v1/analyze.py) and conflict check           *)
(* (api/v1/conflict_detection.py, workflows/conflict_workflow.py).         *)
(* Endpoint and background task are coroutines that never await while      *)
(* they use the index, so they run one at a time on the event loop.        *)

\* uuid4 values handed out in one behaviour
MaxUuids == 3

\* conflict-check requests served in one behaviour
MaxChecks == 1

\* detect_conflicts refuses a threshold below 0.65
MinThreshold == 65

\* the thresholds a conflict-check request can carry: the endpoint takes
\* any value in [0, 1]; 0.50, 0.64 and 0.65 besides those of Thresholds
RequestThresholds == {50, 64, 65} \cup Thresholds

\* the value of the n-th uuid4() call
Uuid(n) == "uuid-" \o ToString(n)

\* analyze_case, lines 28-124: the text is extracted, an analysis id drawn
\* and process_analysis added to the background tasks
AnalyzeCase ==
    /\ pc = "idle"
    /\ checked_file = NoFile
    /\ uuids < MaxUuids
    /\ \E file \in Files :
          tasks' = Append(tasks, [kind |-> "analysis", file |-> file,
                                  analysis_id |-> Uuid(uuids + 1)])
    /\ uuids' = uuids + 1
    /\ UNCHANGED <<index, dist, pc, callVars, loopVars, calls, returned, rows,
                   checked_file, writers, run, flowVars>>

\* text_splitter.split_text: a text within chunk_size is one chunk
split_text(text) == <<text>>

\* where a call on the store may raise: nowhere; in storing or embedding the
\* chunks, before the store takes them; in save_local
IndexFaults == {"none", "add", "save"}

\* add_documents, lines 125-159, for one document: the row is created
\* unless one exists, the text is split, its chunks are appended and the
\* store is saved; what it leaves behind, and whether it raised
add_documents(file, unique_id, fault) ==
    LET added == index \o [i \in 1..Len(split_text(file.text)) |->
                             RawCaseChunk([name |-> file.name,
                                           text |-> split_text(file.text)[i]],
                                          unique_id)]
    IN  [rows |-> rows \cup {file.name},
         index |-> IF fault = "add" THEN index ELSE added,
         disk |-> IF fault = "none" THEN added ELSE disk,
         raises |-> fault # "none"]

\* positions of the chunks similarity_search returns for the filter
\* {"source_path": source_hash}
WithSourcePath(source_hash) ==
    {i \in 1..Len(index) : Get(index[i].metadata, "source_path", "None") = source_hash}

\* the store without its first n entries: what vector_store.delete leaves
\* when given index_to_docstore_id[0 .. n-1]
WithoutFirst(n) == SubSeq(index, n + 1, Len(index))

\* update_document, lines 226-271: the entries at positions 0 .. len(docs)-1
\* are deleted, docs[0], overlaid with the patch, is added and the store is
\* saved; the outcomes, one for each chunk the search may put first
update_document(source_hash, patch, fault) ==
    LET docs == WithSourcePath(source_hash)
        n == Cardinality(docs)
    IN  IF docs = {}
        THEN {[rows |-> rows, index |-> index, disk |-> disk, raises |-> FALSE]}
        ELSE {[rows |-> rows,
               index |-> IF fault = "add" THEN WithoutFirst(n)
                         ELSE Append(WithoutFirst(n), UpdatedChunk(index[first], patch)),
               disk |-> IF fault = "none"
                        THEN Append(WithoutFirst(n), UpdatedChunk(index[first], patch))
                        ELSE disk,
               raises |-> fault # "none"] : first \in docs}

\* the UserHistory row process_analysis commits
AnalysisHistory(file) ==
    [feature_used |-> "case_analysis", case_file_name |-> file.name,
     case_file_content |-> file.text]

\* process_analysis, lines 138-218: the background task; an exception of
\* the store is logged and ends the task before the history row is written
ProcessAnalysis ==
    /\ pc = "idle"
    /\ checked_file = NoFile
    /\ tasks # <<>>
    /\ Head(tasks).kind = "analysis"
    /\ LET task == Head(tasks)
       IN  \E fault \in IndexFaults :
           \E out \in IF task.file.name \notin rows
                      THEN {add_documents(task.file, task.analysis_id, fault)}
                      ELSE update_document(task.file.name, AccessPatch, fault) :
              /\ task.file.name \notin rows => Len(index) < MaxIndex
              /\ rows' = out.rows
              /\ index' = out.index
              /\ disk' = out.disk
              /\ history' = IF out.raises THEN history
                            ELSE Append(history, AnalysisHistory(task.file))
    /\ tasks' = Tail(tasks)
    /\ UNCHANGED <<dist, pc, callVars, loopVars, calls, returned, uuids,
                   checked_file, state, response, env, writers, run>>

\* the document ids delete_document can be asked to delete
DocumentIds ==
    {Get(index[i].metadata, "document_id", "None") : i \in 1..Len(index)}
        \cup {"doc-unknown"}

\* delete_document, lines 195-221: the unique_id metadata of the chunks
\* found are passed to vector_store.delete as ids; they are not ids of the
\* docstore, so delete raises and False is returned; the store is as it was
delete_document(document_id) ==
    LET docs_to_delete ==
            {Get(index[i].metadata, "unique_id", "") :
                i \in {j \in 1..Len(index) :
                          Get(index[j].metadata, "document_id", "None") = document_id}}
    IN  [index |-> index, disk |-> disk, ok |-> docs_to_delete = {}]

\* a caller of delete_document
DeleteDocument ==
    /\ pc = "idle"
    /\ checked_file = NoFile
    /\ \E document_id \in DocumentIds :
       \E out \in {delete_document(document_id)} :
          /\ index' = out.index
          /\ disk' = out.disk
          /\ response' = [kind |-> "delete_document", document_id |-> document_id,
                          ok |-> out.ok]
    /\ UNCHANGED <<dist, pc, callVars, loopVars, calls, returned, rows, tasks,
                   uuids, checked_file, state, history, env, writers, run>>

\* the workflow state detect_conflicts starts from, lines 283-298; the
\* threshold, the file id and the conflicts are the evaluator's variables
initial_state(file_name) ==
    [file_name |-> file_name, extracted_text |-> "", case_title |-> "",
     case_parties |-> <<>>, entities |-> <<>>, explanation |-> "",
     error |-> "", current_step |-> "extract_text"]

\* str(e) of the exception an OCR call raises
OcrMessage == "OCR service unavailable"

\* a text with no character at all
NoCharacters(extracted_text) == extracted_text = ""

\* not extracted_text.strip(), line 53
NoText(extracted_text) == strip(extracted_text) = ""

\* the extract_text node, lines 36-70
extract_text_from_pdf(s, ocr) ==
    IF ocr.raises
    THEN [s EXCEPT !.error = "PDF extraction failed: " \o OcrMessage,
                   !.current_step = "error"]
    ELSE IF NoText(ocr.text)
    THEN [s EXCEPT !.error = "No text extracted from PDF",
                   !.current_step = "error"]
    ELSE [s EXCEPT !.extracted_text = ocr.text,
                   !.current_step = "extract_entities"]

\* the extract_case_info node, lines 73-87
extract_case_information(s) ==
    [s EXCEPT !.case_title = CaseTitleOf[s.extracted_text],
              !.case_parties = CasePartiesOf[s.extracted_text],
              !.current_step = "extract_entities"]

\* the handle_error node, lines 208-214
handle_error(s) == [s EXCEPT !.current_step = "end"]

\* what the graph does after extract_text left an error: extract_text has
\* a conditional edge to handle_error and an unconditional edge to
\* extract_case_info (lines 233, 241-248); langgraph, of no fixed version, either
\* follows the condition alone, or runs both targets in one step and
\* rejects their two writes of the same state keys (InvalidUpdateError)
Routes == {"handle_error", "invalid_update"}

\* str(e) of langgraph's InvalidUpdateError
InvalidUpdateMessage == "Can receive only one value per step"

\* entities most the NLP model and the LLM find together in one text
MaxFound == 1

\* what the NLP model and the LLM can find: a party name, a generic term
\* and strings the filter is there for
NlpUniverse == {"Karim Sheikh", "court", "Sec 302", "Re: bail", "Al"}

\* list(set(spacy_entities + llm_entities)), or what had been found when
\* spacy.load, the NLP model or the LLM call raised
NlpResults ==
    {[raises |-> r, found |-> f] :
        r \in BOOLEAN,
        f \in {g \in UNION {[1..n -> NlpUniverse] : n \in 0..MaxFound} :
                  \A i, j \in 1..Len(g) : i # j => g[i] # g[j]}}

\* any(c.isdigit() for c in entity)
HasDigit(entity) == \E i \in 1..Len(entity) : InString(SubSeq(entity, i, i), Digits)

\* shortest entity the filter keeps
MinFiltered == 3

\* the filter of services/conflict_detection.py, lines 100-108
PassesFilter(entity) ==
    /\ ~HasDigit(entity)
    /\ find(entity, ":", 0) = -1
    /\ find(entity, "=", 0) = -1
    /\ Len(entity) >= MinFiltered

\* lines 46-110: title and parties first, then what the models found, filtered
FilteredEntities(text, nlp) ==
    LET case_title == CaseTitleOf[text]
        case_parties == CasePartiesOf[text]
        priority_entities ==
            (IF case_title # "" THEN <<case_title>> ELSE <<>>)
                \o SelectSeq(case_parties, LAMBDA party : party # "" /\ Len(party) > 2)
    IN  SelectSeq(priority_entities \o nlp.found, PassesFilter)

\* the extractor when the exception is not caught as one of no entities
IgnoresFailure(text, nlp) == FilteredEntities(text, nlp)

\* ConflictDetectionService.extract_entities, lines 35-114: an exception of
\* the NLP model or the LLM is logged and the empty list returned
conflict_service_extract_entities(text, nlp) ==
    IF nlp.raises THEN <<>> ELSE FilteredEntities(text, nlp)

\* sorted(list(set(entities)), key=len, reverse=True): no entity twice,
\* longer entities first
SortedUnique(ents) ==
    /\ \A i, j \in 1..Len(ents) : i < j => Len(ents[i]) >= Len(ents[j])
    /\ \A i, j \in 1..Len(ents) : i # j => ents[i] # ents[j]

\* the extract_entities node, lines 99-131: title and parties are added
\* to what the service returned, unless present; the outcomes, one for
\* each order sorted() can leave entities of equal length in
extract_entities(s, nlp) ==
    LET found == Elements(conflict_service_extract_entities(s.extracted_text, nlp))
        with_title == IF s.case_title # "" THEN found \cup {s.case_title} ELSE found
        merged == with_title \cup (Elements(s.case_parties) \ {""})
        orders == {ents \in [1..Cardinality(merged) -> merged] : SortedUnique(ents)}
    IN  {IF ents = <<>>
         THEN [s EXCEPT !.entities = <<>>,
                        !.explanation = "No valid entities found for conflict checking",
                        !.current_step = "generate_response"]
         ELSE [s EXCEPT !.entities = ents, !.current_step = "check_conflicts"] :
            ents \in orders}

\* the check_conflicts node, lines 142-167: the evaluator is called when
\* the index reports documents
check_conflicts(ents, threshold, file_id) ==
    \E raises \in BOOLEAN :
        IF get_document_count(raises) > 0
        THEN CallBody(ents, threshold, file_id)
        ELSE /\ entities' = ents
             /\ similarity_threshold' = threshold
             /\ current_file_id' = file_id
             /\ conflicts' = <<>>
             /\ pc' = "done"
             /\ faulted' = raises
             /\ raised' = {}
             /\ index_before' = index
             /\ searches' = 0
             /\ doc_count' = 0
             /\ specific_entities' = <<>>
             /\ ei' = 0
             /\ results' = <<>>
             /\ UNCHANGED <<index, dist, calls, returned, matched_documents>>

\* the ConflictResponse of api/v1/conflict_detection.py, lines 90-97
ConflictResponse(final) ==
    [kind |-> "result", conflicts_detected |-> Len(conflicts) > 0,
     explanation |-> final.explanation, entities_found |-> final.entities,
     conflicts |-> conflicts, case_title |-> final.case_title]

\* the HTTPException of lines 73-76 and 103
Failure(detail) == [kind |-> "failure", status_code |-> 500, detail |-> detail]

\* what the services did for a request: OCR, the models of the entity
\* extraction, and the LLM of the explanation once it has been asked
Served(request_id, threshold, ocr, nlp, nodes) ==
    [request_id |-> request_id, served |-> env.served + 1, refused |-> env.refused,
     threshold |-> threshold, nodes |-> nodes, ocr |-> ocr, nlp |-> nlp,
     llm |-> [raises |-> FALSE]]

\* nothing found, nothing raised: the outcome of models never called
NotCalled == [raises |-> FALSE, found |-> <<>>]

\* no threshold is refused
NeverTooLow(threshold) == FALSE

\* if similarity_threshold < 0.65, line 279
TooLow(threshold) == threshold < MinThreshold

\* str(e) of the ValueError of line 280
ThresholdMessage == "Threshold too low (<0.65) for reliable conflict detection"

\* the nodes run when extract_text left an error, by route: handle_error
\* alone, or handle_error and extract_case_info in one step
NodesOnError(route) ==
    IF route = "handle_error" THEN <<"extract_text", "handle_error">>
    ELSE <<"extract_text", "extract_case_info", "handle_error">>

\* the nodes run up to the check_conflicts node when the text was read
NodesToCheck == <<"extract_text", "extract_case_info", "extract_entities",
                  "check_conflicts">>

\* check_conflicts (the endpoint) and detect_conflicts, lines 262-300, up
\* to the check_conflicts node: the threshold is checked and, if too low,
\* the request ends with an HTTP 500; else a file id is drawn and the text
\* read; without text the request ends with an HTTP 500, else the case
\* information and the entities are extracted and the evaluator called
DetectConflicts ==
    /\ pc = "idle"
    /\ checked_file = NoFile
    /\ uuids < MaxUuids
    /\ env.served + env.refused < MaxChecks
    /\ \E file \in Files : \E threshold \in RequestThresholds :
          IF TooLow(threshold)
          THEN /\ response' = Failure("Conflict detection failed: " \o ThresholdMessage)
               /\ env' = [env EXCEPT !.refused = env.refused + 1,
                                     !.threshold = threshold]
               /\ UNCHANGED <<index, dist, pc, callVars, loopVars, calls, returned,
                              uuids, checked_file, state>>
          ELSE \E ocr \in OcrOutcomes(file) :
               \E read \in {extract_text_from_pdf(initial_state(file.name), ocr)} :
                  /\ uuids' = uuids + 1
                  /\ IF read.error # ""
                     THEN \E route \in Routes :
                             /\ state' = IF route = "handle_error" THEN handle_error(read)
                                         ELSE read
                             /\ response' =
                                   IF route = "handle_error"
                                   THEN Failure("Processing error: " \o read.error)
                                   ELSE Failure("Conflict detection failed: "
                                                    \o InvalidUpdateMessage)
                             /\ env' = Served(Uuid(uuids + 1), threshold, ocr, NotCalled,
                                              NodesOnError(route))
                             /\ checked_file' = NoFile
                             /\ UNCHANGED <<index, dist, pc, callVars, loopVars, calls,
                                            returned>>
                     ELSE \E info \in {extract_case_information(read)} :
                          \E nlp \in NlpResults :
                          \E found \in extract_entities(info, nlp) :
                             /\ state' = found
                             /\ response' = response
                             /\ env' = Served(Uuid(uuids + 1), threshold, ocr, nlp,
                                              NodesToCheck)
                             /\ checked_file' = file
                             /\ check_conflicts(found.entities, threshold, Uuid(uuids + 1))
    /\ UNCHANGED <<rows, tasks, disk, history, writers, run>>

\* the outcomes of an LLM invocation
LlmOutcomes == {[raises |-> FALSE], [raises |-> TRUE]}

\* response.content of the LLM, for the clearance and for the conflicts
LlmAnswer(cs) ==
    IF cs = <<>> THEN "No conflicts of interest were found."
    ELSE "Conflicts of interest were found."

\* f"{score:.2f}" of a score in hundredths
TwoDecimals(score) ==
    ToString(score \div 100) \o "." \o ToString((score % 100) \div 10)
        \o ToString(score % 10)

\* the keys of docs_to_conflicts in insertion order, lines 185-190
MatchedDocuments(cs) ==
    LET firsts == {n \in 1..Len(cs) :
                      \A m \in 1..(n - 1) : cs[m].matched_document # cs[n].matched_document}
    IN  [k \in 1..Cardinality(firsts) |->
            cs[CHOOSE n \in firsts : Cardinality({m \in firsts : m <= n}) = k].matched_document]

\* the lines of one conflict, lines 210-213
ConflictLines(conflict) ==
    "- Entity: " \o conflict.entity \o "\n"
        \o "- Similarity: " \o TwoDecimals(conflict.similarity_score) \o "\n"
        \o "- Case: " \o conflict.case_details.case_name \o "\n"
        \o "- Context: " \o conflict.context \o "\n\n"

\* the text of the except block, lines 204-215; the warning signs around
\* the header are written (!)
FallbackText(cs) ==
    LET docs == MatchedDocuments(cs)
        Block(doc_id) ==
            LET doc_conflicts == SelectSeq(cs, LAMBDA c : c.matched_document = doc_id)
            IN  "Conflicts with '" \o doc_id \o "':\n"
                    \o Join([n \in 1..Len(doc_conflicts) |->
                                ConflictLines(doc_conflicts[n])],
                            1, Len(doc_conflicts))
    IN  "(!) POTENTIAL CONFLICTS OF INTEREST DETECTED (!)\n\n"
            \o Join([k \in 1..Len(docs) |-> Block(docs[k])], 1, Len(docs))

\* generate_conflict_explanation, lines 166-215: the answer of the LLM; when
\* the LLM raises, the except block renders docs_to_conflicts, a name that
\* is bound only after the branch of the empty list, so that with no
\* conflicts the except block itself raises (UnboundLocalError)
generate_conflict_explanation(cs, llm) ==
    IF ~llm.raises THEN [raises |-> FALSE, text |-> LlmAnswer(cs)]
    ELSE IF cs = <<>> THEN [raises |-> TRUE, text |-> ""]
    ELSE [raises |-> FALSE, text |-> FallbackText(cs)]

\* the generate_explanation node, lines 178-196
generate_explanation(s, cs, llm) ==
    LET explanation == generate_conflict_explanation(cs, llm)
    IN  [s EXCEPT !.explanation =
                      IF explanation.raises
                      THEN "Failed to generate detailed explanation of conflicts"
                      ELSE explanation.text,
                  !.current_step = "generate_response"]

\* the generate_response node, lines 199-205
generate_response(s) == [s EXCEPT !.current_step = "end"]

\* the rest of the request, once the evaluator has returned: the
\* explanation is generated, process_conflict_check is added to the
\* background tasks and the response returned (lines 72-97)
Respond ==
    /\ pc = "idle"
    /\ checked_file # NoFile
    /\ \E llm \in LlmOutcomes :
       \E final \in {generate_response(generate_explanation(state, conflicts, llm))} :
          /\ state' = final
          /\ env' = [env EXCEPT !.llm = llm,
                                !.nodes = @ \o <<"generate_explanation",
                                                 "generate_response">>]
          /\ IF final.error # ""
             THEN /\ response' = Failure("Processing error: " \o final.error)
                  /\ tasks' = tasks
             ELSE /\ response' = ConflictResponse(final)
                  /\ tasks' = Append(tasks, [kind |-> "conflict",
                                             file_name |-> final.file_name,
                                             extracted_text |-> final.extracted_text])
    /\ checked_file' = NoFile
    /\ UNCHANGED <<index, dist, pc, callVars, loopVars, calls, returned, rows,
                   uuids, disk, history, writers, run>>

\* the UserHistory row process_conflict_check commits
ConflictHistory(task) ==
    [feature_used |-> "conflict_detection", case_file_name |-> task.file_name,
     case_file_content |-> task.extracted_text]

\* process_conflict_check, lines 105-142: the background task writes the
\* history row and nothing else; a failed commit is rolled back and logged
ProcessConflictCheck ==
    /\ pc = "idle"
    /\ checked_file = NoFile
    /\ tasks # <<>>
    /\ Head(tasks).kind = "conflict"
    /\ \E commits \in BOOLEAN :
          history' = IF commits THEN Append(history, ConflictHistory(Head(tasks)))
                     ELSE history
    /\ tasks' = Tail(tasks)
    /\ UNCHANGED <<index, dist, pc, callVars, loopVars, calls, returned, rows,
                   uuids, checked_file, disk, state, response, env, writers, run>>

\* the result handed to the caller: len(conflicts) > 0
conflicts_detected == Len(conflicts) > 0

SysInit ==
    /\ index = <<Sentinel>>
    /\ disk = index
    /\ Quiet

SysNext ==
    \/ AnalyzeCase
    \/ ProcessAnalysis
    \/ DetectConflicts
    \/ EntityStep
    \/ Return
    \/ Respond
    \/ ProcessConflictCheck

SysSpec == SysInit /\ [][SysNext]_vars

\* the index under analysis requests and deletions
IndexNext ==
    \/ AnalyzeCase
    \/ ProcessAnalysis
    \/ DeleteDocument

IndexSpec == SysInit /\ [][IndexNext]_vars

---------------------------------------------------------------------------
(* The event loop. Endpoints and background tasks are coroutines of one    *)
(* asyncio loop: a coroutine that has begun runs until it awaits, and only *)
(* then can another one run. process_analysis is taken in two steps here,  *)
(* the change of the store in memory and its save, with the places where   *)
(* it could be suspended in between given by Awaits.                       *)

\* process_analysis suspended at every point between the change of the store
\* and save_local
YieldsBeforeSave(writer) == TRUE

\* whether process_analysis can be suspended between the change of the store
\* and save_local: lines 150-207 of api/v1/analyze.py and the methods of
\* AnalysisVectorDB they call contain no await
Awaits(writer) == FALSE

\* the loop can run another coroutine: every coroutine begun is suspended
Free == \A writer \in writers : Awaits(writer)

\* process_analysis up to vector_store.add_documents: the row is committed
\* and the store changed in memory; an exception there ends the task
BeginAnalysis ==
    /\ pc = "idle"
    /\ checked_file = NoFile
    /\ Free
    /\ tasks # <<>>
    /\ Head(tasks).kind = "analysis"
    /\ LET task == Head(tasks)
       IN  \E fault \in IndexFaults :
           \E out \in IF task.file.name \notin rows
                      THEN {add_documents(task.file, task.analysis_id, fault)}
                      ELSE update_document(task.file.name, AccessPatch, fault) :
              /\ task.file.name \notin rows => Len(index) < MaxIndex
              /\ rows' = out.rows
              /\ index' = out.index
              /\ writers' = IF fault = "add" /\ out.raises
                            THEN writers
                            ELSE writers \cup {[file |-> task.file,
                                                saves |-> out.index # index,
                                                fault |-> fault]}
    /\ tasks' = Tail(tasks)
    /\ UNCHANGED <<dist, pc, callVars, loopVars, calls, returned, uuids,
                   checked_file, run, flowVars>>

\* the rest of process_analysis: save_local writes the store as it is in
\* memory, then the history row is committed, unless save_local raised
SaveIndex ==
    /\ \E writer \in writers :
          /\ disk' = IF writer.saves /\ writer.fault = "none" THEN index ELSE disk
          /\ history' = IF writer.saves /\ writer.fault = "save" THEN history
                        ELSE Append(history, AnalysisHistory(writer.file))
          /\ writers' = writers \ {writer}
    /\ UNCHANGED <<index, dist, pc, callVars, loopVars, calls, returned, rows,
                   tasks, uuids, checked_file, run, state, response, env>>

\* analysis and conflict-check requests and their background tasks on one
\* event loop
LoopNext ==
    \/ BeginAnalysis
    \/ SaveIndex
    \/ Free /\ AnalyzeCase
    \/ Free /\ DetectConflicts
    \/ Free /\ EntityStep
    \/ Free /\ Return
    \/ Free /\ Respond
    \/ Free /\ ProcessConflictCheck

LoopSpec == SysInit /\ [][LoopNext]_vars

---------------------------------------------------------------------------
(* The analysis and argument workflows                                     *)
(* (workflows/analysis_and_argument_workflow.py), invoked by analyze_case  *)
(* and by the argument endpoint with the extracted text as the query.      *)

\* langgraph's END
END == "__end__"

\* the supersteps graph.invoke takes before it raises GraphRecursionError:
\* legal_agent.invoke(state) passes no config, so langgraph's default holds
DefaultRecursionLimit == 25

\* argument_agent.invoke(initial_state, {"recursion_limit": 50})
ArgumentRecursionLimit == 50

recursion_limit(workflow) ==
    IF workflow = "legal" THEN DefaultRecursionLimit ELSE ArgumentRecursionLimit

\* extracted texts that contain "follow_up", in either case
TextF == "Order sheet: follow_up hearing in The State vs. Karim Sheikh."

TextG == "FOLLOW_UP NOTE. Karim Sheikh, counsel for the defendant, to file the statement."

\* the queries: the endpoints refuse a blank text before they invoke
Queries == {TextA, TextB, TextD, TextF, TextG}

\* should_continue, lines 401-405
should_continue(query) ==
    IF find(lower(query), "follow_up", 0) # -1 THEN "continue_analysis" ELSE "end"

\* the node the edges of create_legal_workflow and create_argument_workflow
\* lead to; no node returns error_message, which is no key of AgentState,
\* so the conditional edge of retrieve leads to classify as the plain one
Successor(workflow, node, query) ==
    CASE node = "retrieve" -> "classify"
      [] node = "classify" -> IF workflow = "legal" THEN "analyze" ELSE "argument_generate"
      [] node = "analyze" -> "followups"
      [] node = "followups" -> "update_history"
      [] node = "argument_generate" -> "update_history"
      [] node = "update_history" ->
            IF should_continue(query) = "continue_analysis" THEN "retrieve" ELSE END

\* the length of conversation_history after the node: update_history
\* returns the whole history with two more entries, and the channel adds
\* what a node returns to what it holds (Annotated[list, operator.add])
HistoryAfter(node, length) ==
    IF node = "update_history" THEN length + (length + 2) ELSE length

\* the state an agent starts from: entry point retrieve
Invoked(workflow, query) ==
    [workflow |-> workflow, query |-> query, node |-> "retrieve", steps |-> 0,
     conversation_history |-> 0, outcome |-> "running"]

\* analyze_case, line 83: legal_agent.invoke(state)
InvokeLegalAgent ==
    /\ run.outcome # "running"
    /\ \E query \in Queries : run' = Invoked("legal", query)
    /\ UNCHANGED <<index, dist, pc, callVars, loopVars, calls, returned, rows,
                   tasks, uuids, checked_file, writers, flowVars>>

\* the argument endpoint, lines 81-84: argument_agent.invoke(initial_state, ...)
InvokeArgumentAgent ==
    /\ run.outcome # "running"
    /\ \E query \in Queries : run' = Invoked("argument", query)
    /\ UNCHANGED <<index, dist, pc, callVars, loopVars, calls, returned, rows,
                   tasks, uuids, checked_file, writers, flowVars>>

\* one superstep of the graph: the node runs, its edge is followed; invoke
\* returns at END and raises when the limit is reached before END
RunNode ==
    /\ run.outcome = "running"
    /\ \E next \in {Successor(run.workflow, run.node, run.query)} :
          run' = [run EXCEPT
                    !.node = next,
                    !.steps = run.steps + 1,
                    !.conversation_history =
                        HistoryAfter(run.node, run.conversation_history),
                    !.outcome =
                        IF next = END THEN "returned"
                        ELSE IF run.steps + 1 = recursion_limit(run.workflow)
                             THEN "GraphRecursionError"
                             ELSE "running"]
    /\ UNCHANGED <<index, dist, pc, callVars, loopVars, calls, returned, rows,
                   tasks, uuids, checked_file, writers, flowVars>>

AgentNext ==
    \/ InvokeLegalAgent
    \/ InvokeArgumentAgent
    \/ RunNode

AgentSpec == SysInit /\ [][AgentNext]_vars

---------------------------------------------------------------------------
(* What the evaluator is to do with a match, restated from the rules of    *)
(* the Conflict Evaluator, for the properties below                        *)

\* the matches the searches of the call returned so far: <<entity number, rank>>
Matches ==
    {m \in (1..Len(results)) \X (1..MaxNeighbours) : m[2] <= Len(results[m[1]])}

Match(m) == results[m[1]][m[2]]

EntityOf(m) == specific_entities[m[1]]

SourceOf(m) == Get(Match(m).metadata, "source", "Unknown")

\* m1 is met before m2: entity by entity, then rank by rank
Earlier(m1, m2) == m1[1] < m2[1] \/ (m1[1] = m2[1] /\ m1[2] < m2[2])

\* a raw score above 1.0 is halved and capped at 1.0
ScoreOf(m) ==
    IF Match(m).score > 100
    THEN (IF Match(m).score \div 2 > 100 THEN 100 ELSE Match(m).score \div 2)
    ELSE Match(m).score

IsCommonActor(e) == LowerOf[e] \in {"the state", "government", "supreme court"}

EffectiveThreshold(m) ==
    IF IsCommonActor(EntityOf(m)) THEN similarity_threshold + 10
    ELSE similarity_threshold

\* a RawCase chunk that is not the excluded one, with a legal context
Admissible(m) ==
    /\ Get(Match(m).metadata, "document_type", "None") = "RawCase"
    /\ Get(Match(m).metadata, "unique_id", "") # current_file_id
    /\ ContextOf[Match(m).content, EntityOf(m)] # ""
    /\ MeaningfulIn[Match(m).content, EntityOf(m)]

\* the match passes every gate but the one on documents already matched
Eligible(m) ==
    /\ 0 <= ScoreOf(m) /\ ScoreOf(m) <= 100
    /\ ScoreOf(m) >= EffectiveThreshold(m)
    /\ Admissible(m)

\* the records of the list for one document
RecordsFor(doc) == {n \in 1..Len(conflicts) : conflicts[n].matched_document = doc}

\* the first eligible match of a document that has one
FirstEligible(doc) ==
    CHOOSE m \in Matches :
        /\ Eligible(m) /\ SourceOf(m) = doc
        /\ \A m2 \in Matches :
              Eligible(m2) /\ SourceOf(m2) = doc => ~Earlier(m2, m)

\* a call has begun, so the loop variables are those of a call
InCall == pc # "idle" \/ calls > 0

---------------------------------------------------------------------------
(* Properties                                                              *)

\* C1: in the list a call builds and returns, no two ConflictRecords have
\* the same matched_document.
C1_NoDuplicateMatchedDocument ==
    \A n1, n2 \in 1..Len(conflicts) :
        conflicts[n1].matched_document = conflicts[n2].matched_document => n1 = n2

\* C1 case: a finished call in which two eligible matches were on the same
\* document, so that the later one was dropped.
C1_Witness ==
    /\ pc = "done"
    /\ conflicts # <<>>
    /\ \E m1, m2 \in Matches :
          /\ m1 # m2 /\ Eligible(m1) /\ Eligible(m2)
          /\ SourceOf(m1) = SourceOf(m2)

\* C2: every similarity_score of a record lies in [0, 1], and is the raw
\* score of a match on that document by that entity, halved and capped at 1.0
\* when the raw score is above 1.0, unchanged when it is in [0, 1]; no record
\* comes from a raw score below 0.
C2_ScoreInUnitRange ==
    \A n \in 1..Len(conflicts) :
        /\ 0 <= conflicts[n].similarity_score
        /\ conflicts[n].similarity_score <= 100
        /\ \E m \in Matches :
              /\ EntityOf(m) = conflicts[n].entity
              /\ SourceOf(m) = conflicts[n].matched_document
              /\ \/ /\ Match(m).score > 100
                    /\ Match(m).score \div 2 <= 100
                    /\ conflicts[n].similarity_score = Match(m).score \div 2
                 \/ /\ Match(m).score > 100
                    /\ Match(m).score \div 2 > 100
                    /\ conflicts[n].similarity_score = 100
                 \/ /\ 0 <= Match(m).score /\ Match(m).score <= 100
                    /\ conflicts[n].similarity_score = Match(m).score

\* C2 case: a finished call with a record capped at 1.0 from a raw score
\* above 2.0, a record whose raw score was halved, and a match with a
\* negative raw score.
C2_Witness ==
    /\ pc = "done"
    /\ \E m \in Matches : Match(m).score < 0 /\ Admissible(m)
    /\ \E n \in 1..Len(conflicts) : conflicts[n].similarity_score = 100
    /\ \E n \in 1..Len(conflicts) : conflicts[n].similarity_score = 70

\* C3, as stated: every record's matched_document differs from the
\* excludeDocumentId (current_file_id) of the call.
C3_MatchedDocumentIsNotExcluded ==
    \A n \in 1..Len(conflicts) : conflicts[n].matched_document # current_file_id

\* C4, as stated: a conflict check of a submitted file returns no record
\* whose matched document is that file.
C4_NoSelfConflict ==
    checked_file # NoFile =>
        \A n \in 1..Len(conflicts) : conflicts[n].matched_document # checked_file.name

\* C5: when the index reports a count of 0, the call makes no similarity
\* search and ends with an empty conflicts list, so that conflicts_detected
\* is False, whatever the entities.
C5_EmptyIndexGivesNoConflicts ==
    (InCall /\ doc_count = 0) =>
        /\ pc \in {"done", "idle"}
        /\ searches = 0
        /\ conflicts = <<>>
        /\ ~conflicts_detected

\* C5 case: a finished call that read a count of 0 and was given an entity
\* that is neither generic nor short.
C5_Witness ==
    /\ pc = "done"
    /\ doc_count = 0
    /\ \E i \in 1..Len(entities) :
          LowerOf[entities[i]] \notin generic_terms /\ Len(entities[i]) >= 5
    /\ searches = 0
    /\ conflicts = <<>>

\* C6: when every entity is, lower-cased, a generic term or has fewer than
\* 5 characters, the call makes no similarity search and returns the empty
\* list.
C6_OnlyGenericOrShortEntities ==
    (/\ InCall
     /\ \A i \in 1..Len(entities) :
           LowerOf[entities[i]] \in generic_terms \/ Len(entities[i]) < 5) =>
        /\ pc \in {"done", "idle"}
        /\ searches = 0
        /\ conflicts = <<>>

\* C6 case: a finished call on a non-empty index whose entities were one
\* generic term and one short name.
C6_Witness ==
    /\ pc = "done"
    /\ doc_count > 0
    /\ entities = <<"court", "Acme">>
    /\ searches = 0
    /\ conflicts = <<>>

\* C7: the documents with a record are those with an eligible match; the
\* record of a document carries the entity of the document's first eligible
\* match in entity order; and the records are in the order in which those
\* first matches were met, entity by entity.
C7_FirstEntityKeepsTheDocument ==
    /\ {conflicts[n].matched_document : n \in 1..Len(conflicts)}
          = {SourceOf(m) : m \in {x \in Matches : Eligible(x)}}
    /\ \A n \in 1..Len(conflicts) :
          conflicts[n].entity = EntityOf(FirstEligible(conflicts[n].matched_document))
    /\ \A n1, n2 \in 1..Len(conflicts) :
          n1 < n2 => Earlier(FirstEligible(conflicts[n1].matched_document),
                             FirstEligible(conflicts[n2].matched_document))

\* C7 case: a finished call in which two different entities each had an
\* eligible match on the same document, and which recorded two documents.
C7_Witness ==
    /\ pc = "done"
    /\ Len(conflicts) >= 2
    /\ \E m1, m2 \in Matches :
          /\ m1[1] < m2[1] /\ EntityOf(m1) # EntityOf(m2)
          /\ Eligible(m1) /\ Eligible(m2)
          /\ SourceOf(m1) = SourceOf(m2)

C9_EffectiveThreshold ==
    /\ \A m \in Matches :
          ScoreOf(m) < (IF LowerOf[EntityOf(m)]
                              \in {"the state", "government", "supreme court"}
                        THEN similarity_threshold + 10
                        ELSE similarity_threshold) =>
             ~\E n \in 1..Len(conflicts) :
                 /\ conflicts[n].entity = EntityOf(m)
                 /\ conflicts[n].matched_document = SourceOf(m)
                 /\ conflicts[n].similarity_score = ScoreOf(m)
    /\ \A m \in Matches : Eligible(m) => RecordsFor(SourceOf(m)) # {}

\* C9 case: a finished call at threshold 0.85 with entity "The State" and
\* a match of raw score 0.9 on a chunk reading "The State vs. ...", and no
\* record.
C9_Witness ==
    /\ pc = "done"
    /\ similarity_threshold = 85
    /\ conflicts = <<>>
    /\ \E m \in Matches :
          /\ LowerOf[EntityOf(m)] = "the state"
          /\ Match(m).score = 90
          /\ Match(m).content = TextA
          /\ Admissible(m)

\* C10: a match of an entity that is no common legal actor, with a raw
\* score in (1, 2] whose half reaches the threshold, on an admissible chunk
\* whose document has no earlier eligible match, gives exactly one record for
\* that document, with that entity and the halved score.
C10_HalvedScoreRecord ==
    \A m \in Matches :
        (/\ ~IsCommonActor(EntityOf(m))
         /\ Match(m).score > 100 /\ Match(m).score <= 200
         /\ Match(m).score \div 2 >= similarity_threshold
         /\ Admissible(m)
         /\ ~\E m2 \in Matches :
                Earlier(m2, m) /\ Eligible(m2) /\ SourceOf(m2) = SourceOf(m)) =>
            /\ Cardinality(RecordsFor(SourceOf(m))) = 1
            /\ \A n \in RecordsFor(SourceOf(m)) :
                  /\ conflicts[n].entity = EntityOf(m)
                  /\ conflicts[n].similarity_score = Match(m).score \div 2

\* C10 case: a finished call at threshold 0.7 in which "Karim Sheikh"
\* matched the chunk "... Karim Sheikh, counsel for the defendant, ..." with
\* raw score 1.4, and a record of score 0.70 for that document.
C10_Witness ==
    /\ pc = "done"
    /\ similarity_threshold = 70
    /\ \E m \in Matches :
          /\ EntityOf(m) = "Karim Sheikh"
          /\ Match(m).score = 140
          /\ Match(m).content = TextA
          /\ \E n \in RecordsFor(SourceOf(m)) :
                conflicts[n].similarity_score = 70 /\ conflicts[n].entity = "Karim Sheikh"

\* C11: when the body of the loop raises for an entity, the call still
\* comes to its return, having searched for every kept entity; and every
\* entity whose body did not raise, those after the failing one included,
\* has the documents of its eligible matches recorded.
C11_ExceptionSkipsOneEntity ==
    /\ pc = "entity" => ei < Len(specific_entities)
    /\ (pc = "done" /\ doc_count > 0) =>
          /\ ei = Len(specific_entities)
          /\ Len(results) = Len(specific_entities)
          /\ searches = Len(specific_entities)
    /\ \A m \in Matches :
          (m[1] \notin raised /\ Eligible(m)) => RecordsFor(SourceOf(m)) # {}

\* C11 case: a finished call in which the body raised for the first entity
\* and a record was made for the second.
C11_Witness ==
    /\ pc = "done"
    /\ 1 \in raised
    /\ 2 \notin raised
    /\ Len(specific_entities) = 2
    /\ \E n \in 1..Len(conflicts) :
          /\ conflicts[n].entity = specific_entities[2]
          /\ specific_entities[2] # specific_entities[1]

\* C12: when the LLM raised while the explanation of a check was
\* generated, the generator did not raise: the explanation handed back is
\* the plain-text summary of the conflicts, also when there are none
C12_FallbackOnLlmFailure ==
    (response.kind = "result" /\ env.llm.raises) =>
        response.explanation = FallbackText(response.conflicts)

\* C13: whenever the background task of a successful conflict check has
\* written its history row, the text that was checked is the content of a
\* chunk of the index
C13_CheckedTextIsIndexed ==
    \A n \in 1..Len(history) :
        history[n].feature_used = "conflict_detection" =>
            \E i \in 1..Len(index) : index[i].content = history[n].case_file_content

\* the text has no character other than white space
Blank(text) == \A i \in 1..Len(text) : IsSpace(SubSeq(text, i, i))

AfterFailedExtraction == env.served > 0 /\ env.nlp.raises /\ checked_file = NoFile

\* C19 as stated: when the NLP model or the LLM raised during entity
\* extraction the check completes with no entity, no conflict and
\* conflicts_detected False
C19_NoEntitiesNoConflicts ==
    AfterFailedExtraction =>
        /\ response.kind = "result"
        /\ response.entities_found = <<>>
        /\ response.conflicts = <<>>
        /\ ~response.conflicts_detected

\* C19: when the NLP model or the LLM raised during entity extraction the
\* check does not fail and nothing the models found is kept: the entities
\* are exactly the case title and the case parties of the text, the
\* conflicts are conflicts of these, and with no title and no parties
\* there is no entity, no conflict and conflicts_detected is False
C19_OnlyCaseEntitiesAfterFailure ==
    AfterFailedExtraction =>
        /\ response.kind = "result"
        /\ Elements(response.entities_found) =
              ({state.case_title} \cup Elements(state.case_parties)) \ {""}
        /\ \A n \in 1..Len(response.conflicts) :
              response.conflicts[n].entity \in Elements(response.entities_found)
        /\ response.conflicts_detected = (response.conflicts # <<>>)
        /\ response.entities_found = <<>> => response.conflicts = <<>>

\* the extraction raised after the models had found an entity; the check
\* was answered with the title and the parties as entities, and a conflict
C19_Witness ==
    /\ AfterFailedExtraction
    /\ env.nlp.found # <<>>
    /\ response.kind = "result"
    /\ response.entities_found # <<>>
    /\ response.conflicts_detected

\* C20: every entity of the merged list, as handed to the evaluator by a
\* conflict check and as returned in entities_found, passes the filter: no
\* digit, neither ':' nor '=', at least 3 characters
C20_MergedEntitiesPassTheFilter ==
    /\ checked_file # NoFile =>
          \A n \in 1..Len(entities) : PassesFilter(entities[n])
    /\ response.kind = "result" =>
          \A n \in 1..Len(response.entities_found) :
              PassesFilter(response.entities_found[n])

\* the step is a run of process_analysis for a file that has its row
IsUpdate ==
    /\ tasks # <<>>
    /\ tasks' = Tail(tasks)
    /\ Head(tasks).kind = "analysis"
    /\ Head(tasks).file.name \in rows

\* C14, as stated: no step of an analysis request or of its background
\* task makes the count of the index smaller.
C14_CountNeverDecreases == [][Len(index') >= Len(index)]_vars

\* C15, as stated: update_document leaves every chunk of every other
\* document, and the sentinel entry, in the index as it was, and leaves the
\* identified document as many chunks of each text as it had.
C15_UpdateTouchesOnlyItsDocument ==
    [][IsUpdate =>
          LET name == Head(tasks).file.name
              Others(ix) == {i \in 1..Len(ix) :
                                Get(ix[i].metadata, "source_path", "None") # name}
              Own(ix, text) == {i \in 1..Len(ix) :
                                   /\ Get(ix[i].metadata, "source_path", "None") = name
                                   /\ ix[i].content = text}
          IN  /\ \A i \in Others(index) :
                    Cardinality({j \in 1..Len(index') : index'[j] = index[i]})
                       = Cardinality({j \in 1..Len(index) : index[j] = index[i]})
              /\ \A i \in 1..Len(index) :
                    Cardinality(Own(index', index[i].content))
                       = Cardinality(Own(index, index[i].content))]_vars

\* C16, as stated: the count of the index is at least 1 in every state
\* reached by add_documents, update_document and delete_document.
C16_CountAtLeastOne == Len(index) >= 1

\* C17, as stated: whenever add_documents or update_document has finished,
\* by returning or by raising, the saved index holds the entries of the
\* index in memory.
C17_DiskHoldsTheIndex == disk = index


\* C23: every record whose entity is, lower-cased, "the state" comes from a
\* match whose extracted context has one of the state phrases ("the state
\* vs.", "vs. the state", "represented by the state", "the state as
\* plaintiff/defendant/respondent/petitioner"); and a match of "the state"
\* whose context has none of them gives no record, whatever its score.
C23_TheStateNeedsAStatePhrase ==
    /\ \A n \in 1..Len(conflicts) :
          LowerOf[conflicts[n].entity] = "the state" =>
             \E m \in Matches :
                /\ EntityOf(m) = conflicts[n].entity
                /\ SourceOf(m) = conflicts[n].matched_document
                /\ StatePhraseIn[Match(m).content, EntityOf(m)]
                /\ conflicts[n].context = SanitizedOf[Match(m).content, EntityOf(m)]
    /\ \A m \in Matches :
          (/\ LowerOf[EntityOf(m)] = "the state"
           /\ ~StatePhraseIn[Match(m).content, EntityOf(m)]) =>
             ~\E n \in 1..Len(conflicts) :
                 /\ conflicts[n].entity = EntityOf(m)
                 /\ conflicts[n].matched_document = SourceOf(m)

\* C23 case: a finished call in which "The State" has a record from the
\* chunk "The State vs. Karim Sheikh. ..." and matched, with the highest
\* score, the chunk "... counsel for the state ..." of another document
\* that is a RawCase and not excluded, and that document has no record.
C23_Witness ==
    /\ pc = "done"
    /\ \E n \in 1..Len(conflicts) :
          conflicts[n].entity = "The State" /\ conflicts[n].matched_document = "a.pdf"
    /\ \E m \in Matches :
          /\ EntityOf(m) = "The State"
          /\ Match(m).content = TextB
          /\ Match(m).score = 250
          /\ Get(Match(m).metadata, "document_type", "None") = "RawCase"
          /\ Get(Match(m).metadata, "unique_id", "") # current_file_id
          /\ RecordsFor(SourceOf(m)) = {}


\* the match is on the chunk the index holds at some position
Indexed(m) ==
    \E i \in 1..Len(index) :
        index[i].content = Match(m).content /\ index[i].metadata = Match(m).metadata

\* C24: every record comes from a match on an indexed chunk whose
\* document_type is "RawCase" and whose unique_id differs from the
\* excluded id (current_file_id); the sentinel entry, and any chunk without
\* a document type, has no record.
C24_RecordsComeFromOtherRawCases ==
    /\ \A n \in 1..Len(conflicts) :
          \E m \in Matches :
             /\ EntityOf(m) = conflicts[n].entity
             /\ SourceOf(m) = conflicts[n].matched_document
             /\ Indexed(m)
             /\ "document_type" \in DOMAIN Match(m).metadata
             /\ Match(m).metadata.document_type = "RawCase"
             /\ Get(Match(m).metadata, "unique_id", "") # current_file_id
    /\ \A m \in Matches :
          (\/ "document_type" \notin DOMAIN Match(m).metadata
           \/ Match(m).content = SentinelText) =>
             RecordsFor(SourceOf(m)) = {}

\* C24 case: a finished call that has a record, in which a match on the
\* chunk whose unique_id is the excluded id had a score that reaches the
\* threshold and a legal context, and that chunk's document has no record.
C24_Witness ==
    /\ pc = "done"
    /\ conflicts # <<>>
    /\ \E m \in Matches :
          /\ Get(Match(m).metadata, "unique_id", "") = current_file_id
          /\ Get(Match(m).metadata, "document_type", "None") = "RawCase"
          /\ ScoreOf(m) >= EffectiveThreshold(m)
          /\ MeaningfulIn[Match(m).content, EntityOf(m)]
          /\ RecordsFor(SourceOf(m)) = {}


\* C28: for an effective threshold t with 0.5 < t <= 1, a match that
\* passes every other gate gives a record exactly when its raw score r
\* satisfies t <= r <= 1 or r >= 2t; so a raw score of 0 gives none, and
\* no raw score strictly between 1 and 2t gives one.
C28_ScoreGate ==
    \A m \in Matches :
        (/\ 50 < EffectiveThreshold(m) /\ EffectiveThreshold(m) <= 100
         /\ Admissible(m)
         /\ ~\E m2 \in Matches : Earlier(m2, m) /\ SourceOf(m2) = SourceOf(m)) =>
            /\ RecordsFor(SourceOf(m)) # {} <=>
                  \/ EffectiveThreshold(m) <= Match(m).score /\ Match(m).score <= 100
                  \/ Match(m).score >= 2 * EffectiveThreshold(m)
            /\ Match(m).score = 0 => RecordsFor(SourceOf(m)) = {}
            /\ (100 < Match(m).score /\ Match(m).score < 2 * EffectiveThreshold(m)) =>
                  RecordsFor(SourceOf(m)) = {}

\* C28 case: a finished call at threshold 0.51 in which the entity matched,
\* with raw score 0, a chunk that passes every other gate, and no record
\* was made.
C28_Witness ==
    /\ pc = "done"
    /\ similarity_threshold = 51
    /\ conflicts = <<>>
    /\ \E m \in Matches : Match(m).score = 0 /\ Admissible(m)


\* the case title and the case parties of the text being checked
PriorityEntities == ({state.case_title} \cup Elements(state.case_parties)) \ {""}

\* C21, as stated: in the entity sequence handed to the evaluator by a
\* conflict check, the case title and the case parties come before every
\* other extracted entity.
C21_TitleAndPartiesFirst ==
    checked_file # NoFile =>
        \A i, j \in 1..Len(entities) :
            (entities[i] \in PriorityEntities /\ entities[j] \notin PriorityEntities) =>
                i < j

\* C25, as stated: when extract_text left an error, the only node run
\* after it is handle_error (extract_case_info, extract_entities,
\* check_conflicts and generate_explanation do not run); when it left no
\* error, handle_error does not run.
C25_ErrorRoutesToHandleErrorOnly ==
    env.served > 0 =>
        /\ state.error # "" =>
              \A k \in 2..Len(env.nodes) : env.nodes[k] = "handle_error"
        /\ state.error = "" =>
              \A k \in 1..Len(env.nodes) : env.nodes[k] # "handle_error"

\* C26, as stated: a conflict check whose merged entity list is empty ends
\* without the check_conflicts and generate_explanation nodes having run,
\* with conflicts_detected False and the explanation "No valid entities
\* found for conflict checking".
C26_NoEntitiesSkipsToResponse ==
    (response.kind = "result" /\ response.entities_found = <<>>) =>
        /\ \A k \in 1..Len(env.nodes) :
              env.nodes[k] \notin {"check_conflicts", "generate_explanation"}
        /\ ~response.conflicts_detected
        /\ response.explanation = "No valid entities found for conflict checking"

\* C27: a conflict-check request with a threshold below 0.65 is refused
\* with an error in the step it is made: no node of the workflow runs, no
\* file id is drawn, no search is made, no background task is added and
\* no history row written; a request that is served has a threshold of at
\* least 0.65, begins with the extract_text node, and hands the evaluator
\* the threshold it came with.
C27_LowThresholdIsRefused ==
    [][/\ env'.refused # env.refused =>
             /\ env'.threshold < 65
             /\ response'.kind = "failure"
             /\ response'.detail # ""
             /\ env'.served = env.served
             /\ env'.nodes = env.nodes
             /\ state' = state
             /\ uuids' = uuids
             /\ searches' = searches
             /\ dist' = dist
             /\ tasks' = tasks
             /\ history' = history
             /\ pc' = "idle"
             /\ checked_file' = NoFile
       /\ env'.served # env.served =>
             /\ env'.threshold >= 65
             /\ env'.threshold <= 100
             /\ env'.nodes # <<>>
             /\ env'.nodes[1] = "extract_text"
             /\ checked_file' # NoFile => similarity_threshold' = env'.threshold]_vars

\* C27 case: with a RawCase document in the index, a request with
\* threshold 0.64 has been refused: nothing served, no history row.
C27_Witness ==
    /\ env.refused = 1
    /\ env.threshold = 64
    /\ env.served = 0
    /\ response.kind = "failure"
    /\ response.detail = "Conflict detection failed: " \o ThresholdMessage
    /\ Len(index) > 1
    /\ \A n \in 1..Len(history) : history[n].feature_used # "conflict_detection"


\* C30, as stated: when add_documents has finished for a document, whether
\* it returned or raised, an AnalysisDocument row exists for the
\* document's source_path if and only if the index holds a chunk of it.
C30_RowIffChunks ==
    [][\A file \in Files :
          (/\ tasks # <<>>
           /\ tasks' = Tail(tasks)
           /\ Head(tasks).kind = "analysis"
           /\ Head(tasks).file = file
           /\ file.name \notin rows)
          => (file.name \in rows' <=>
                \E i \in 1..Len(index') :
                    Get(index'[i].metadata, "source_path", "None") = file.name)]_vars


\* C22: on one event loop the writes to the index are serialized: at most
\* one process_analysis has changed the store without having saved it, and
\* while one has, the only step taken is its own save: no request, task or
\* other writer changes the rows, the store or the file on disk before it.
C22_IndexWritesAreSerialized ==
    /\ [](Cardinality(writers) <= 1)
    /\ [][writers # {} =>
             /\ writers' = {}
             /\ index' = index
             /\ rows' = rows
             /\ tasks' = tasks
             /\ pc' = pc
             /\ disk' \in {disk, index}]_vars

\* C22 case: one analysis has changed the store in memory and not saved it
\* yet, while another analysis task is waiting and a document is already
\* in the index.
C22_Witness ==
    /\ writers # {}
    /\ index # disk
    /\ tasks # <<>>
    /\ Head(tasks).kind = "analysis"
    /\ Len(disk) > 1


\* C29, as stated: every invocation of legal_agent and of argument_agent
\* comes to an end at END, for every query: once invoke is over it has
\* returned, the graph at END, after no more node executions than the
\* recursion limit.
C29_EveryInvocationReachesEnd ==
    run.outcome \notin {"none", "running"} =>
        /\ run.outcome = "returned"
        /\ run.node = END
        /\ run.steps <= recursion_limit(run.workflow)

===========================================================================
